---- MODULE Spec2Model ----
(***************************************************************************)
(* A model of the two-stage cipher of this repository: the rotor machine   *)
(* of Rotor.py, the DES block cipher of Des.py and the pipeline of         *)
(* HybridCryptosystem.py that composes them.                               *)
(*                                                                         *)
(* Text is a sequence of character ordinals (65 is "A"), a bit vector a    *)
(* sequence of 0/1, a wiring a sequence of 26 ordinals.  An operation that *)
(* can raise returns a record [err, val]; err = "none" is a normal return. *)
(*                                                                         *)
(* Six specifications share the definitions:                               *)
(*   SpecDes    the functions of Des.py applied to drawn inputs            *)
(*   SpecUnit   one Rotor and the calls made on it                         *)
(*   SpecRotor  one RotorMachine and the calls made on it                  *)
(*   Spec       one HybridCryptosystem and the calls made on it            *)
(*   SpecKey    the DES key of a HybridCryptosystem read and set as hex    *)
(*   SpecThreads  two threads calling one RotorMachine                     *)
(***************************************************************************)
EXTENDS Integers, Sequences, FiniteSets, TLC

VARIABLES
  op,                      \* name of the last call ("init" after construction)
  arg,                     \* its argument
  ret,                     \* its return value (<<>> when it raised)
  err,                     \* the exception it raised, "none" if it returned
  prev,                    \* SpecDes: the call before it, [op, arg, ret, err]
  input,                   \* SpecDes: the drawn input text
  key,                     \* SpecDes: the drawn key
  wiring,                  \* Rotor.wiring of rotor1, rotor2, rotor3
  reverse_wiring,          \* Rotor.reverse_wiring of the three rotors
  notch_position,          \* Rotor.notch_position of the three rotors
  position,                \* Rotor.position of the three rotors
  rotation_count,          \* RotorMachine.rotation_count
  start,                   \* history: the positions set by the last reset or construction
  alpha_count,             \* history: alphabetic characters encoded since then
  direct_steps,            \* history: direct rotate_rotors calls since then
  enc_log,                 \* history: the encrypt calls made straight after a reset
  des_key,                 \* HybridCryptosystem.des_key
  initial_rotor_positions, \* HybridCryptosystem.initial_rotor_positions
  sent,                    \* history: the last successful HybridCryptosystem.encrypt
  away,                    \* history: the rotors stood away from the initial positions
                           \*   when the last HybridCryptosystem encrypt or decrypt began
  threads,                 \* SpecThreads: the two calls of RotorMachine.encrypt under way
  interleaved              \* history: a step of one call fell inside the other call

callVars  == <<op, arg, ret, err, prev>>
desVars   == <<input, key>>
rotorVars == <<wiring, reverse_wiring, notch_position, position, rotation_count>>
histVars  == <<start, alpha_count, direct_steps, enc_log>>
pipeVars  == <<des_key, initial_rotor_positions, sent, away>>
threadVars == <<threads, interleaved>>
vars      == <<callVars, desVars, rotorVars, histVars, pipeVars, threadVars>>

(***************************************************************************)
(* Bounds                                                                  *)
(***************************************************************************)
\* longest message SpecRotor draws, in characters
MaxLen == 3
\* most alphabetic characters SpecRotor encodes between two resets
MaxAlpha == 5
\* most direct rotate_rotors calls between two resets
MaxDirect == 1
\* longest input of SpecDes, in bytes
MaxBytes == 9
\* largest stride of the byte patterns SpecDes draws
MaxStride == 2
\* longest message of a call of SpecThreads
MaxCall == 2

(***************************************************************************)
(* Des.py: the fixed tables                                                *)
(***************************************************************************)
IP == <<58,50,42,34,26,18,10,2, 60,52,44,36,28,20,12,4,
        62,54,46,38,30,22,14,6, 64,56,48,40,32,24,16,8,
        57,49,41,33,25,17,9,1, 59,51,43,35,27,19,11,3,
        61,53,45,37,29,21,13,5, 63,55,47,39,31,23,15,7>>

IP_INV == <<40,8,48,16,56,24,64,32, 39,7,47,15,55,23,63,31,
            38,6,46,14,54,22,62,30, 37,5,45,13,53,21,61,29,
            36,4,44,12,52,20,60,28, 35,3,43,11,51,19,59,27,
            34,2,42,10,50,18,58,26, 33,1,41,9,49,17,57,25>>

E == <<32,1,2,3,4,5, 4,5,6,7,8,9, 8,9,10,11,12,13,
       12,13,14,15,16,17, 16,17,18,19,20,21,
       20,21,22,23,24,25, 24,25,26,27,28,29,
       28,29,30,31,32,1>>

P == <<16,7,20,21,29,12,28,17,
       1,15,23,26,5,18,31,10,
       2,8,24,14,32,27,3,9,
       19,13,30,6,22,11,4,25>>

PC1 == <<57,49,41,33,25,17,9, 1,58,50,42,34,26,18,
         10,2,59,51,43,35,27, 19,11,3,60,52,44,36,
         63,55,47,39,31,23,15, 7,62,54,46,38,30,22,
         14,6,61,53,45,37,29, 21,13,5,28,20,12,4>>

PC2 == <<14,17,11,24,1,5, 3,28,15,6,21,10,
         23,19,12,4,26,8, 16,7,27,20,13,2,
         41,52,31,37,47,55, 30,40,51,45,33,48,
         44,49,39,56,34,53, 46,42,50,36,29,32>>

SHIFTS == <<1,1,2,2,2,2,2,2, 1,2,2,2,2,2,2,1>>

SBOX == <<
<<<<14,4,13,1,2,15,11,8,3,10,6,12,5,9,0,7>>,
  <<0,15,7,4,14,2,13,1,10,6,12,11,9,5,3,8>>,
  <<4,1,14,8,13,6,2,11,15,12,9,7,3,10,5,0>>,
  <<15,12,8,2,4,9,1,7,5,11,3,14,10,0,6,13>>>>,
<<<<15,1,8,14,6,11,3,4,9,7,2,13,12,0,5,10>>,
  <<3,13,4,7,15,2,8,14,12,0,1,10,6,9,11,5>>,
  <<0,14,7,11,10,4,13,1,5,8,12,6,9,3,2,15>>,
  <<13,8,10,1,3,15,4,2,11,6,7,12,0,5,14,9>>>>,
<<<<10,0,9,14,6,3,15,5,1,13,12,7,11,4,2,8>>,
  <<13,7,0,9,3,4,6,10,2,8,5,14,12,11,15,1>>,
  <<13,6,4,9,8,15,3,0,11,1,2,12,5,10,14,7>>,
  <<1,10,13,0,6,9,8,7,4,15,14,3,11,5,2,12>>>>,
<<<<7,13,14,3,0,6,9,10,1,2,8,5,11,12,4,15>>,
  <<13,8,11,5,6,15,0,3,4,7,2,12,1,10,14,9>>,
  <<10,6,9,0,12,11,7,13,15,1,3,14,5,2,8,4>>,
  <<3,15,0,6,10,1,13,8,9,4,5,11,12,7,2,14>>>>,
<<<<2,12,4,1,7,10,11,6,8,5,3,15,13,0,14,9>>,
  <<14,11,2,12,4,7,13,1,5,0,15,10,3,9,8,6>>,
  <<4,2,1,11,10,13,7,8,15,9,12,5,6,3,0,14>>,
  <<11,8,12,7,1,14,2,13,6,15,0,9,10,4,5,3>>>>,
<<<<12,1,10,15,9,2,6,8,0,13,3,4,14,7,5,11>>,
  <<10,15,4,2,7,12,9,5,6,1,13,14,0,11,3,8>>,
  <<9,14,15,5,2,8,12,3,7,0,4,10,1,13,11,6>>,
  <<4,3,2,12,9,5,15,10,11,14,1,7,6,0,8,13>>>>,
<<<<4,11,2,14,15,0,8,13,3,12,9,7,5,10,6,1>>,
  <<13,0,11,7,4,9,1,10,14,3,5,12,2,15,8,6>>,
  <<1,4,11,13,12,3,7,14,10,15,6,8,0,5,9,2>>,
  <<6,11,13,8,1,4,10,7,9,5,0,15,14,2,3,12>>>>,
<<<<13,2,8,4,6,15,11,1,10,9,3,14,5,0,12,7>>,
  <<1,15,13,8,10,3,7,4,12,5,6,11,0,14,9,2>>,
  <<7,11,4,1,9,12,14,2,0,6,10,13,15,3,5,8>>,
  <<2,1,14,7,4,10,8,13,15,12,9,0,3,5,6,11>>>>
>>


(***************************************************************************)
(* Helpers of the model                                                    *)
(***************************************************************************)
\* a sequence built as a function, made an explicit tuple
Tup(s) == s \o <<>>

\* a normal return and a raised exception
Ok(v) == [err |-> "none", val |-> v]
Raise(e) == [err |-> e, val |-> <<>>]

\* the largest entry of a table
MaxOf(table) == CHOOSE m \in {table[i] : i \in 1..Len(table)} :
                  \A i \in 1..Len(table) : table[i] <= m

\* the integer a bit vector spells, most significant bit first
RECURSIVE BitsValue(_)
BitsValue(b) ==
  IF Len(b) = 0 THEN 0 ELSE 2 * BitsValue(SubSeq(b, 1, Len(b) - 1)) + b[Len(b)]

\* Python's s[-n:] and s[:-n] for n >= 1
LastN(s, n) == IF n >= Len(s) THEN s ELSE SubSeq(s, Len(s) - n + 1, Len(s))
DropLastN(s, n) == IF n >= Len(s) THEN <<>> ELSE SubSeq(s, 1, Len(s) - n)

Reverse(s) == Tup([i \in 1..Len(s) |-> s[Len(s) + 1 - i]])

RECURSIVE Repeat(_, _)
Repeat(s, n) == IF n <= 0 THEN <<>> ELSE s \o Repeat(s, n - 1)

(***************************************************************************)
(* Des.py: the functions                                                   *)
(***************************************************************************)
\* perm reads bits[i-1] for every i of the table: an IndexError when the
\* table names an index past the end of bits
perm_ok(bits, table) == MaxOf(table) <= Len(bits)
perm(bits, table) == Tup([i \in 1..Len(table) |-> bits[table[i]]])

\* zip stops at the shorter argument
xor(a, b) ==
  Tup([i \in 1..(IF Len(a) < Len(b) THEN Len(a) ELSE Len(b)) |-> (a[i] + b[i]) % 2])

shift_left(bits, n) == SubSeq(bits, n + 1, Len(bits)) \o SubSeq(bits, 1, n)

RECURSIVE gen_rounds(_, _, _)
gen_rounds(C, D, r) ==
  IF r > Len(SHIFTS) THEN <<>>
  ELSE LET C2 == shift_left(C, SHIFTS[r])
           D2 == shift_left(D, SHIFTS[r])
       IN  <<perm(C2 \o D2, PC2)>> \o gen_rounds(C2, D2, r + 1)

\* the 16 subkeys; PC1 reads key bits up to 63 and nothing past them
gen_subkeys_ok(key64) == perm_ok(key64, PC1)
gen_subkeys(key64) ==
  LET key56 == perm(key64, PC1)
  IN  gen_rounds(SubSeq(key56, 1, 28), SubSeq(key56, 29, Len(key56)), 1)

\* SBOX[i][r][c] for the i-th chunk of six bits
sbox_val(block48, i) ==
  LET o == (i - 1) * 6
  IN  SBOX[i][2 * block48[o + 1] + block48[o + 6] + 1]
             [8 * block48[o + 2] + 4 * block48[o + 3] + 2 * block48[o + 4]
                + block48[o + 5] + 1]

\* the four bits of each of the eight values, most significant first
nibbles(vals) ==
  Tup([j \in 1..32 |-> (vals[((j - 1) \div 4) + 1] \div (2 ^ (3 - ((j - 1) % 4)))) % 2])

sbox_sub(block48) == nibbles(Tup([i \in 1..8 |-> sbox_val(block48, i)]))

feistel(R, K) == perm(sbox_sub(xor(perm(R, E), K)), P)

RECURSIVE rounds(_, _, _, _)
rounds(L, R, order, r) ==
  IF r > Len(order) THEN <<L, R>>
  ELSE rounds(R, xor(L, feistel(R, order[r])), order, r + 1)

\* the block cipher with the subkeys in the order of the call (a mutant)
des_block_same_order(block64, subkeys, enc) ==
  LET b  == perm(block64, IP)
      LR == rounds(SubSeq(b, 1, 32), SubSeq(b, 33, Len(b)), subkeys, 1)
  IN  perm(LR[2] \o LR[1], IP_INV)

des_block(block64, subkeys, enc) ==
  LET b     == perm(block64, IP)
      order == IF enc THEN subkeys ELSE Reverse(subkeys)
      LR    == rounds(SubSeq(b, 1, 32), SubSeq(b, 33, Len(b)), order, 1)
  IN  perm(LR[2] \o LR[1], IP_INV)

string_to_bits(s) ==
  Tup([j \in 1..(8 * Len(s)) |->
        (s[((j - 1) \div 8) + 1] \div (2 ^ (7 - ((j - 1) % 8)))) % 2])

\* one character per started group of 8 bits; the last may be short
bits_to_string(b) ==
  Tup([i \in 1..((Len(b) + 7) \div 8) |->
        BitsValue(SubSeq(b, 8 * (i - 1) + 1,
                         IF 8 * i <= Len(b) THEN 8 * i ELSE Len(b)))])

\* pad with the length computed modulo 8 once more: 0 bytes on a full block (a mutant)
pad_may_add_nothing(bits) ==
  LET pad_len == (8 - ((Len(bits) \div 8) % 8)) % 8
  IN  bits \o Repeat(string_to_bits(<<pad_len>>), pad_len)

pad(bits) ==
  LET pad_len == 8 - ((Len(bits) \div 8) % 8)
  IN  bits \o Repeat(string_to_bits(<<pad_len>>), pad_len)

\* ord of the empty string is a TypeError; bits[:-0] is the empty list
unpad(bits) ==
  LET pad_byte == LastN(bits, 8)
      pad_len  == BitsValue(pad_byte)
  IN  IF Len(bits) = 0 THEN Raise("TypeError")
      ELSE IF pad_len = 0 THEN Ok(<<>>)
      ELSE Ok(DropLastN(bits, pad_len * 8))

\* the blocks chained: each block is combined with the block before it
RECURSIVE chain_from(_, _, _, _)
chain_from(bits, sub, enc, before) ==
  IF Len(bits) = 0 THEN <<>>
  ELSE CHOOSE all \in
         {out \o chain_from(SubSeq(bits, 65, Len(bits)), sub, enc, out) :
            out \in {des_block(xor(SubSeq(bits, 1, 64), before), sub, enc)}} : TRUE

des_blocks_chained(bits, sub, enc) ==
  chain_from(bits, sub, enc, Tup([i \in 1..64 |-> 0]))

RECURSIVE des_blocks(_, _, _)
des_blocks(bits, sub, enc) ==
  IF Len(bits) = 0 THEN <<>>
  ELSE des_block(SubSeq(bits, 1, 64), sub, enc)
         \o des_blocks(SubSeq(bits, 65, Len(bits)), sub, enc)

des_encrypt(text, k) ==
  IF ~gen_subkeys_ok(k) THEN Raise("IndexError")
  ELSE Ok(des_blocks(pad(string_to_bits(text)), gen_subkeys(k), TRUE))

\* a last block shorter than 64 bits is an IndexError in perm(block64, IP)
des_decrypt(bitstream, k) ==
  IF ~gen_subkeys_ok(k) THEN Raise("IndexError")
  ELSE IF Len(bitstream) % 64 # 0 THEN Raise("IndexError")
  ELSE LET out == unpad(des_blocks(bitstream, gen_subkeys(k), FALSE))
       IN  IF out.err # "none" THEN out ELSE Ok(bits_to_string(out.val))

(***************************************************************************)
(* SpecDes: the functions of Des.py applied to drawn inputs                *)
(***************************************************************************)
\* the demo key of Des.py, and a second key
DemoKey == Tup([i \in 1..64 |-> <<0, 1, 1, 0>>[((i - 1) % 4) + 1]])
AltKey == Tup([i \in 1..64 |-> IF (i * i) % 7 < 3 THEN 1 ELSE 0])
Keys == {DemoKey, AltKey}

\* byte values the inputs are made of: pad lengths in and out of [1,8],
\* letters of both cases, bytes above 127
ByteChoices == <<0, 1, 8, 9, 65, 97, 200, 255>>

Input(n, a, b) ==
  Tup([i \in 1..n |-> ByteChoices[((a + b * i) % Len(ByteChoices)) + 1]])
Inputs ==
  {Input(n, a, b) : n \in 0..MaxBytes, a \in 0..(Len(ByteChoices) - 1), b \in 0..MaxStride}

NoCall == [op |-> "none", arg |-> <<>>, ret |-> <<>>, err |-> "none"]
ThisCall == [op |-> op, arg |-> arg, ret |-> ret, err |-> err]

\* the call log after a call of f on a that gave the result r
Called(f, a, r) ==
  /\ op' = f
  /\ arg' = a
  /\ ret' = r.val
  /\ err' = r.err
  /\ prev' = ThisCall

RotorIdle ==
  /\ wiring = <<>> /\ reverse_wiring = <<>> /\ notch_position = <<>>
  /\ position = <<>> /\ rotation_count = 0
  /\ start = <<>> /\ alpha_count = 0 /\ direct_steps = 0 /\ enc_log = <<>>
PipeIdle ==
  des_key = <<>> /\ initial_rotor_positions = <<>> /\ sent = <<>> /\ away = FALSE
ThreadsIdle == threads = <<>> /\ interleaved = FALSE

InitDes ==
  /\ input \in Inputs
  /\ key \in Keys
  /\ op = "init" /\ arg = <<>> /\ ret = <<>> /\ err = "none" /\ prev = NoCall
  /\ RotorIdle /\ PipeIdle /\ ThreadsIdle

DesFrame == UNCHANGED <<desVars, rotorVars, histVars, pipeVars, threadVars>>

\* pad(string_to_bits(input))
Pad ==
  /\ op = "init"
  /\ Called("pad", string_to_bits(input), Ok(pad(string_to_bits(input))))
  /\ DesFrame

\* unpad of the input's bits, or of what pad returned
Unpad ==
  /\ op \in {"init", "pad"}
  /\ LET a == IF op = "pad" THEN ret ELSE string_to_bits(input)
     IN  Called("unpad", a, unpad(a))
  /\ DesFrame

\* des_block(block, gen_subkeys(key), enc=True) on an input of 64 bits
DesBlockEnc ==
  /\ op = "init" /\ Len(input) = 8
  /\ Called("des_block_enc", string_to_bits(input),
            Ok(des_block(string_to_bits(input), gen_subkeys(key), TRUE)))
  /\ DesFrame

\* des_block(block, gen_subkeys(key), enc=False) on an input of 64 bits,
\* or on the block des_block just encrypted
DesBlockDec ==
  /\ \/ op = "init" /\ Len(input) = 8
     \/ op = "des_block_enc"
  /\ LET a == IF op = "des_block_enc" THEN ret ELSE string_to_bits(input)
     IN  Called("des_block_dec", a, Ok(des_block(a, gen_subkeys(key), FALSE)))
  /\ DesFrame

\* des_encrypt(input, key)
DesEncrypt ==
  /\ op = "init"
  /\ Called("des_encrypt", input, des_encrypt(input, key))
  /\ DesFrame

\* des_decrypt of the input's bits, or of what des_encrypt returned
DesDecrypt ==
  /\ op \in {"init", "des_encrypt"}
  /\ LET a == IF op = "des_encrypt" THEN ret ELSE string_to_bits(input)
     IN  Called("des_decrypt", a, des_decrypt(a, key))
  /\ DesFrame

NextDes == Pad \/ Unpad \/ DesBlockEnc \/ DesBlockDec \/ DesEncrypt \/ DesDecrypt

SpecDes == InitDes /\ [][NextDes]_vars
(***************************************************************************)
(* Properties of Des.py, checked under SpecDes                             *)
(***************************************************************************)
\* C2: decrypting the block des_block encrypted, with the same subkeys in
\* reverse order, returns the original 64-bit block.
DesBlockInvolution ==
  (op = "des_block_dec" /\ prev.op = "des_block_enc")
    => (err = "none" /\ arg = prev.ret /\ ret = prev.arg)

\* a block was encrypted to a different block and decrypted back
DesBlockRoundTripDone ==
  /\ op = "des_block_dec" /\ prev.op = "des_block_enc"
  /\ Len(prev.arg) = 64 /\ arg # prev.arg /\ ret = prev.arg

\* the bytes bits ends with after the first n bits, as integers
TailBytes(bits, n) ==
  [j \in 1..((Len(bits) - n) \div 8) |->
     BitsValue(SubSeq(bits, n + 8 * (j - 1) + 1, n + 8 * j))]

\* C4: pad appends k whole bytes, 1 <= k <= 8, each holding the value k, and
\* unpad of what pad returned is the byte-aligned vector pad was given.
PadUnpadRoundTrip ==
  /\ op = "pad" =>
       \E k \in 1..8 :
         /\ Len(ret) = Len(arg) + 8 * k
         /\ SubSeq(ret, 1, Len(arg)) = arg
         /\ \A j \in 1..k : TailBytes(ret, Len(arg))[j] = k
  /\ (op = "unpad" /\ prev.op = "pad") =>
       (err = "none" /\ arg = prev.ret /\ ret = prev.arg)

\* a whole block was padded with a full block of 8s and unpadded again
PadUnpadFullBlockDone ==
  /\ op = "unpad" /\ prev.op = "pad"
  /\ Len(prev.arg) = 64 /\ Len(arg) = 128 /\ ret = prev.arg

\* C7: unpad fails with a PaddingError and returns no data when the last
\* byte, read as padLen, is outside [1,8] or padLen*8 exceeds the input;
\* only otherwise does it drop the trailing padLen*8 bits.
UnpadRejectsBadPadding ==
  (op = "unpad" /\ Len(arg) >= 8) =>
    LET padLen == BitsValue(LastN(arg, 8))
    IN  IF padLen \notin 1..8 \/ padLen * 8 > Len(arg)
        THEN err = "PaddingError" /\ ret = <<>>
        ELSE err = "none" /\ ret = SubSeq(arg, 1, Len(arg) - padLen * 8)

\* the i-th block of 64 bits
Block(bits, i) == SubSeq(bits, 64 * (i - 1) + 1, 64 * i)

\* C12: des_encrypt processes each 64-bit block on its own: ciphertext block i
\* is des_block of plaintext block i under the key's subkeys and of nothing
\* else, so identical plaintext blocks give identical ciphertext blocks.
BlocksEncryptedIndependently ==
  (op = "des_encrypt" /\ err = "none") =>
    LET pt  == pad(string_to_bits(arg))
        sub == gen_subkeys(key)
        n   == Len(pt) \div 64
    IN  /\ Len(ret) = Len(pt)
        /\ \A i \in 1..n : Block(ret, i) = des_block(Block(pt, i), sub, TRUE)
        /\ \A i, j \in 1..n :
             Block(pt, i) = Block(pt, j) => Block(ret, i) = Block(ret, j)

\* a text whose padded bits are two identical blocks was encrypted to two
\* identical blocks
IdenticalBlocksDone ==
  /\ op = "des_encrypt" /\ err = "none"
  /\ Len(ret) = 128
  /\ Block(pad(string_to_bits(arg)), 1) = Block(pad(string_to_bits(arg)), 2)
  /\ Block(ret, 1) = Block(ret, 2)
(***************************************************************************)
(* Python's str methods on the characters the model meets (ordinals up to  *)
(* 255, and the two upper-case forms above 255)                            *)
(***************************************************************************)
\* whether the character c is alphabetic for Python
IsAlphaOrd(c) ==
  \/ c \in 65..90 \/ c \in 97..122
  \/ c = 170 \/ c = 181 \/ c = 186
  \/ c \in 192..214 \/ c \in 216..246 \/ c \in 248..255
  \/ c = 376 \/ c = 924

\* str.isalpha: a non-empty string of alphabetic characters
isalpha(str) == Len(str) > 0 /\ \A i \in 1..Len(str) : IsAlphaOrd(str[i])

\* str.upper of one character; 223 (sharp s) becomes the two characters "SS"
upper_char(c) ==
  IF c \in 97..122 \/ c \in 224..246 \/ c \in 248..254 THEN <<c - 32>>
  ELSE IF c = 255 THEN <<376>>
  ELSE IF c = 181 THEN <<924>>
  ELSE IF c = 223 THEN <<83, 83>>
  ELSE <<c>>

RECURSIVE upper(_)
upper(str) ==
  IF Len(str) = 0 THEN <<>> ELSE upper_char(str[1]) \o upper(Tail(str))

(***************************************************************************)
(* Rotor.py: class Rotor                                                   *)
(***************************************************************************)
\* the slot of reverse_wiring a character of the wiring writes: a list index
\* in -26..25 (Python counts a negative index from the end), else none
RevSlot(c) ==
  IF c - 65 \in 0..25 THEN c - 65
  ELSE IF c - 65 \in (-26)..(-1) THEN c - 65 + 26
  ELSE -1

\* the list of 26 slots after the loop of __init__: slot j holds chr(65 + i)
\* for the last i whose character writes j, and 0 for the empty string
RevList(w) ==
  [j \in 0..25 |->
     LET writers == {i \in 1..Len(w) : RevSlot(w[i]) = j}
     IN  IF writers = {} THEN 0
         ELSE 65 + (CHOOSE i \in writers : \A k \in writers : k <= i) - 1]

\* ''.join: the non-empty slots in order
RECURSIVE JoinFrom(_, _)
JoinFrom(list, j) ==
  IF j > 25 THEN <<>>
  ELSE (IF list[j] = 0 THEN <<>> ELSE <<list[j]>>) \o JoinFrom(list, j + 1)

\* Rotor.__init__: the wiring upper-cased and its reverse; an IndexError
\* when a character of the wiring has no slot
Rotor_init(wiring_arg) ==
  LET w == upper(wiring_arg)
  IN  IF \E i \in 1..Len(w) : RevSlot(w[i]) = -1
      THEN [err |-> "IndexError", wiring |-> <<>>, reverse_wiring |-> <<>>]
      ELSE [err |-> "none", wiring |-> w,
            reverse_wiring |-> JoinFrom(RevList(w), 0)]

\* rotate that carries when the rotor wraps to 0, as its docstring words it (a mutant)
rotate_carry_on_wrap(pos, notch) ==
  [position |-> (pos + 1) % 26, carry |-> ((pos + 1) % 26 = 0)]

\* Rotor.rotate: the new position and the returned flag
rotate(pos, notch) ==
  [position |-> (pos + 1) % 26, carry |-> ((pos + 1) % 26 = notch)]

\* the body shared by encrypt_forward and encrypt_backward, on the table w
through(w, pos, char) ==
  IF ~isalpha(char) THEN Ok(char)
  ELSE LET u == upper(char)
       IN  IF Len(u) # 1 THEN Raise("TypeError")
           ELSE LET index == (u[1] - 65 + pos) % 26
                IN  IF index >= Len(w) THEN Raise("IndexError")
                    ELSE Ok(<<65 + ((w[index + 1] - 65 - pos) % 26)>>)

encrypt_forward(w, pos, char) == through(w, pos, char)
encrypt_backward(rw, pos, char) == through(rw, pos, char)

(***************************************************************************)
(* Rotor.py: class RotorMachine.  A machine state m is a record            *)
(* [position, rotation_count]; wirings and notches are fixed.              *)
(***************************************************************************)
\* rotate_rotors that turns the leftmost rotor whenever the middle rotor
\* stands at its notch, whether or not the middle rotor turned
rotate_rotors_double_step(m, notch) ==
  LET r3 == rotate(m.position[3], notch[3])
      r2 == IF r3.carry THEN rotate(m.position[2], notch[2])
            ELSE [position |-> m.position[2], carry |-> m.position[2] = notch[2]]
      r1 == IF r2.carry THEN rotate(m.position[1], notch[1])
            ELSE [position |-> m.position[1], carry |-> FALSE]
  IN  [position |-> <<r1.position, r2.position, r3.position>>,
       rotation_count |-> m.rotation_count + 1 + (IF r3.carry THEN 1 ELSE 0)
                            + (IF r2.carry THEN 1 ELSE 0)]

rotate_rotors(m, notch) ==
  LET r3 == rotate(m.position[3], notch[3])
      r2 == rotate(m.position[2], notch[2])
      r1 == rotate(m.position[1], notch[1])
  IN  IF ~r3.carry
      THEN [position |-> <<m.position[1], m.position[2], r3.position>>,
            rotation_count |-> m.rotation_count + 1]
      ELSE IF ~r2.carry
      THEN [position |-> <<m.position[1], r2.position, r3.position>>,
            rotation_count |-> m.rotation_count + 2]
      ELSE [position |-> <<r1.position, r2.position, r3.position>>,
            rotation_count |-> m.rotation_count + 3]

\* a reflector that shifts by one letter: not an involution (a mutant)
reflect_shift(char) == <<65 + ((char[1] - 65 + 1) % 26)>>

\* the reflector: chr(ord('Z') - (ord(result) - ord('A')))
reflect(char) == <<90 - (char[1] - 65)>>

\* the six rotor passes of encrypt_char from stage k on (1..3 forward
\* through rotor3, rotor2, rotor1; 4 the reflector; 5..7 backward through
\* rotor1, rotor2, rotor3); an exception of a pass ends the call
RECURSIVE passes(_, _, _, _, _)
passes(w, rw, pos, char, k) ==
  IF k > 7 THEN Ok(char)
  ELSE LET r == IF k <= 3 THEN encrypt_forward(w[4 - k], pos[4 - k], char)
                ELSE IF k = 4 THEN Ok(reflect(char))
                ELSE encrypt_backward(rw[k - 4], pos[k - 4], char)
       IN  IF r.err # "none" THEN r ELSE passes(w, rw, pos, r.val, k + 1)

\* RotorMachine.encrypt_char on a one-character string: the machine state
\* after the call and the result
\* encrypt_char that rotates the rotors before it looks at the character
encrypt_char_steps_first(w, rw, notch, m, char) ==
  LET m2 == rotate_rotors(m, notch)
  IN  IF ~isalpha(char) THEN [m |-> m2, err |-> "none", val |-> char]
      ELSE LET r == passes(w, rw, m2.position, upper(char), 1)
           IN  [m |-> m2, err |-> r.err, val |-> r.val]

encrypt_char(w, rw, notch, m, char) ==
  IF ~isalpha(char) THEN [m |-> m, err |-> "none", val |-> char]
  ELSE LET m2 == rotate_rotors(m, notch)
           r  == passes(w, rw, m2.position, upper(char), 1)
       IN  [m |-> m2, err |-> r.err, val |-> r.val]

\* RotorMachine.encrypt: the characters in turn; an exception ends the call
\* with the rotors where the failing character left them
RECURSIVE encrypt_from(_, _, _, _, _, _)
encrypt_from(w, rw, notch, m, message, encrypted) ==
  IF Len(message) = 0 THEN [m |-> m, err |-> "none", val |-> encrypted]
  ELSE LET r == IF isalpha(<<message[1]>>)
                THEN encrypt_char(w, rw, notch, m, <<message[1]>>)
                ELSE [m |-> m, err |-> "none", val |-> <<message[1]>>]
       IN  IF r.err # "none" THEN [m |-> r.m, err |-> r.err, val |-> <<>>]
           ELSE encrypt_from(w, rw, notch, r.m, Tail(message), encrypted \o r.val)

encrypt(w, rw, notch, m, message) == encrypt_from(w, rw, notch, m, message, <<>>)

reset_to_defaults(pos) == [position |-> <<0, 0, 0>>, rotation_count |-> 0]

\* RotorMachine.reset
reset(pos) == [position |-> pos, rotation_count |-> 0]

(***************************************************************************)
(* SpecRotor: one RotorMachine and the calls made on it                    *)
(***************************************************************************)
\* the wirings of main() in Rotor.py, the defaults of HybridCryptosystem
W1 == <<69, 75, 77, 70, 76, 71, 68, 81, 86, 90, 78, 84, 79, 87, 89, 72, 88,
        85, 83, 80, 65, 73, 66, 82, 67, 74>>
W2 == <<65, 74, 68, 75, 83, 73, 82, 85, 88, 66, 76, 72, 87, 84, 77, 67, 81,
        71, 90, 78, 80, 89, 70, 86, 79, 69>>
W3 == <<66, 68, 70, 72, 74, 76, 67, 80, 82, 84, 88, 86, 90, 78, 89, 69, 73,
        87, 71, 65, 75, 77, 85, 83, 81, 79>>

\* a wiring in lower case
Lower(w) == Tup([i \in 1..Len(w) |-> w[i] + 32])

\* the wirings a machine is built with: permutations of A-Z in either case
WiringChoices == {<<W1, W2, W3>>, <<Lower(W3), W1, W1>>}
\* the notches of main(), and two with the rightmost notch at 4
NotchChoices == {<<16, 4, 21>>, <<0, 1, 4>>, <<7, 9, 4>>}
\* positions in [0,26) a machine is built with
PosChoices == {<<0, 0, 0>>, <<25, 3, 20>>}
\* positions reset is called with: reset takes any integers
ResetArgs == PosChoices \cup {<<26, 0, -1>>}

\* "A", "a", " ", and e-acute
Chars == <<65, 97, 32, 233>>
\* the messages drawn: n successive characters of Chars, from the a-th on
Msg(n, a) == Tup([i \in 1..n |-> Chars[((a + i) % Len(Chars)) + 1]])
Messages == {Msg(n, a) : n \in 0..MaxLen, a \in 0..(Len(Chars) - 1)}

\* the number of alphabetic characters of a message
RECURSIVE NAlpha(_)
NAlpha(message) ==
  IF Len(message) = 0 THEN 0
  ELSE (IF isalpha(<<message[1]>>) THEN 1 ELSE 0) + NAlpha(Tail(message))

\* the machine state
M == [position |-> position, rotation_count |-> rotation_count]
SetM(m) == position' = m.position /\ rotation_count' = m.rotation_count

\* the call log without the call before
CalledR(f, a, r) ==
  /\ op' = f
  /\ arg' = a
  /\ ret' = r.val
  /\ err' = r.err
  /\ UNCHANGED prev

\* RotorMachine.__init__ with wirings ws, notches and positions
Machine_init(ws, notch, pos) ==
  LET r == <<Rotor_init(ws[1]), Rotor_init(ws[2]), Rotor_init(ws[3])>>
  IN  /\ wiring = <<r[1].wiring, r[2].wiring, r[3].wiring>>
      /\ reverse_wiring = <<r[1].reverse_wiring, r[2].reverse_wiring, r[3].reverse_wiring>>
      /\ notch_position = notch
      /\ position = pos
      /\ rotation_count = 0

InitRotor ==
  /\ \E ws \in WiringChoices, notch \in NotchChoices, pos \in PosChoices :
       /\ Machine_init(ws, notch, pos)
       /\ start = pos
  /\ alpha_count = 0 /\ direct_steps = 0 /\ enc_log = <<>>
  /\ op = "init" /\ arg = <<>> /\ ret = <<>> /\ err = "none" /\ prev = NoCall
  /\ input = <<>> /\ key = <<>>
  /\ PipeIdle /\ ThreadsIdle

RotorFixed ==
  UNCHANGED <<wiring, reverse_wiring, notch_position, desVars, pipeVars, threadVars>>

\* machine.rotate_rotors()
RotateRotors ==
  /\ direct_steps < MaxDirect
  /\ SetM(rotate_rotors(M, notch_position))
  /\ CalledR("rotate_rotors", <<>>, Ok(<<>>))
  /\ direct_steps' = direct_steps + 1
  /\ enc_log' = <<>>
  /\ UNCHANGED <<start, alpha_count>>
  /\ RotorFixed

\* machine.encrypt_char(char)
EncryptChar(c) ==
  /\ alpha_count + NAlpha(<<c>>) <= MaxAlpha
  /\ \E r \in {encrypt_char(wiring, reverse_wiring, notch_position, M, <<c>>)} :
         /\ SetM(r.m)
         /\ CalledR("encrypt_char", <<c>>, r)
  /\ alpha_count' = alpha_count + NAlpha(<<c>>)
  /\ enc_log' = <<>>
  /\ UNCHANGED <<start, direct_steps>>
  /\ RotorFixed

\* the log of encrypt calls after a call that starts at from, straight
\* after a reset: a call that feeds back what the logged call returned,
\* from the same positions, is logged with it
Logged(from, message, r) ==
  LET e == [start |-> from, in |-> message, out |-> r.val]
  IN  IF r.err # "none" \/ op \notin {"init", "reset"} THEN <<>>
      ELSE IF Len(enc_log) = 1 /\ enc_log[1].start = from
              /\ enc_log[1].out = message
      THEN <<enc_log[1], e>>
      ELSE <<e>>

\* machine.encrypt(message)
Encrypt(message) ==
  /\ alpha_count + NAlpha(message) <= MaxAlpha
  /\ \E r \in {encrypt(wiring, reverse_wiring, notch_position, M, message)} :
         /\ SetM(r.m)
         /\ CalledR("encrypt", message, r)
         /\ enc_log' = Logged(position, message, r)
  /\ alpha_count' = alpha_count + NAlpha(message)
  /\ UNCHANGED <<start, direct_steps>>
  /\ RotorFixed

\* machine.reset(rotor1_pos, rotor2_pos, rotor3_pos)
Reset(pos) ==
  /\ SetM(reset(pos))
  /\ CalledR("reset", pos, Ok(<<>>))
  /\ start' = pos
  /\ alpha_count' = 0
  /\ direct_steps' = 0
  /\ enc_log' = IF Len(enc_log) = 1 THEN enc_log ELSE <<>>
  /\ RotorFixed

\* what the logged encrypt call returned, when the machine has just been
\* reset to the positions that call started from
Feedback ==
  IF Len(enc_log) = 1 /\ op = "reset" /\ position = enc_log[1].start
  THEN {enc_log[1].out} ELSE {}

NextRotor ==
  \/ RotateRotors
  \/ \E c \in {Chars[i] : i \in 1..Len(Chars)} : EncryptChar(c)
  \/ \E message \in Messages \cup Feedback : Encrypt(message)
  \/ \E pos \in ResetArgs : Reset(pos)

SpecRotor == InitRotor /\ [][NextRotor]_vars

(***************************************************************************)
(* Properties of the RotorMachine, checked under SpecRotor                 *)
(***************************************************************************)
InRange(pos) == \A i \in 1..Len(pos) : pos[i] \in 0..25
IsAscii(str) == \A i \in 1..Len(str) : str[i] \in 0..127

\* an encrypt call from positions in [0,26) was followed, after a reset to
\* the same positions, by an encrypt call on what it returned
FedBack == Len(enc_log) = 2 /\ InRange(enc_log[1].start)

\* C3 as claimed: encoding C = encode(M) again, after a reset to the positions
\* M was encoded from, reproduces the message M exactly, for every message M.
RotorSelfInverseExact == FedBack => enc_log[2].out = enc_log[1].in

\* C3 amended: for a message M of ASCII characters the second encoding
\* returns M with its letters in upper case.
RotorSelfInverseUpper ==
  (FedBack /\ IsAscii(enc_log[1].in)) => enc_log[2].out = upper(enc_log[1].in)

\* a message with a lower-case letter and two letters or more was encoded to
\* something else and fed back
RotorRoundTripDone ==
  /\ FedBack /\ IsAscii(enc_log[1].in)
  /\ enc_log[2].start = enc_log[1].start /\ enc_log[2].in = enc_log[1].out
  /\ NAlpha(enc_log[1].in) >= 2
  /\ enc_log[1].in # upper(enc_log[1].in)
  /\ enc_log[1].out # upper(enc_log[1].in)
  /\ enc_log[2].out = upper(enc_log[1].in)

\* exactly five alphabetic characters were encoded, and nothing else stepped
\* the rotors, since all three were set to 0, with the rightmost notch at 4
FiveEncodedFromZero ==
  /\ start = <<0, 0, 0>> /\ notch_position[3] = 4
  /\ alpha_count = 5 /\ direct_steps = 0 /\ err = "none"

PositionInRange == InRange(position)

\* the machine after n calls of rotate_rotors
RECURSIVE Steps(_, _, _)
Steps(m, notch, n) == IF n <= 0 THEN m ELSE Steps(rotate_rotors(m, notch), notch, n - 1)

\* C13: encrypt_char on a non-alphabetic character returns it unchanged and
\* leaves the rotor positions and the rotation counter unchanged; an
\* alphabetic character steps the machine by exactly one rotate_rotors, and
\* encrypt steps it once for each alphabetic character of the message and
\* passes the others through.
OnlyLettersStep ==
  [][/\ (op' = "encrypt_char" /\ ~isalpha(arg'))
          => (err' = "none" /\ ret' = arg'
              /\ UNCHANGED <<position, rotation_count>>)
     /\ (op' = "encrypt_char" /\ isalpha(arg'))
          => [position |-> position', rotation_count |-> rotation_count']
               = rotate_rotors(M, notch_position)
     /\ (op' = "encrypt" /\ err' = "none")
          => /\ [position |-> position', rotation_count |-> rotation_count']
                  = Steps(M, notch_position, NAlpha(arg'))
             /\ Len(ret') = Len(arg')
             /\ \A i \in 1..Len(arg') :
                  ~IsAlphaOrd(arg'[i]) => ret'[i] = arg'[i]]_vars

\* a space was given to encrypt_char after letters had stepped the rotors
\* from positions in [0,26): it came back unchanged, and the rotors stand
\* where one rotate_rotors for each letter puts them
NonLetterPassedDone ==
  /\ op = "encrypt_char" /\ arg = <<32>> /\ ret = <<32>> /\ err = "none"
  /\ InRange(start) /\ alpha_count >= 2 /\ direct_steps = 0
  /\ M = Steps([position |-> start, rotation_count |-> 0], notch_position, alpha_count)

DupWiring == Tup([i \in 1..26 |-> IF i = 2 THEN 65 ELSE 64 + i])
ShortWiring == Tup([i \in 1..25 |-> 64 + i])
DigitWiring == ShortWiring \o <<53>>
TildeWiring == ShortWiring \o <<126>>

\* the wiring strings a Rotor is built with
WiringArgs == {W1, Lower(W3), DupWiring, ShortWiring, DigitWiring, TildeWiring}

\* whether w maps the 26 letters onto the 26 letters, and rw undoes it
IsPermutation(w) ==
  /\ Len(w) = 26
  /\ \A i \in 1..26 : w[i] \in 65..90
  /\ \A i, j \in 1..26 : w[i] = w[j] => i = j
IsInverse(w, rw) ==
  /\ Len(rw) = 26
  /\ \A i \in 1..26 : rw[w[i] - 64] = 64 + i

InitUnit ==
  /\ \E wa \in WiringArgs, notch \in {0, 4}, pos \in {0, 25} :
       LET r == Rotor_init(wa)
       IN  /\ err = r.err
           /\ arg = wa
           /\ IF r.err = "none"
              THEN /\ wiring = <<r.wiring>>
                   /\ reverse_wiring = <<r.reverse_wiring>>
                   /\ notch_position = <<notch>>
                   /\ position = <<pos>>
              ELSE /\ wiring = <<>> /\ reverse_wiring = <<>>
                   /\ notch_position = <<>> /\ position = <<>>
  /\ op = "init" /\ ret = <<>> /\ prev = NoCall
  /\ rotation_count = 0
  /\ start = <<>> /\ alpha_count = 0 /\ direct_steps = 0 /\ enc_log = <<>>
  /\ input = <<>> /\ key = <<>>
  /\ PipeIdle /\ ThreadsIdle

UnitFrame ==
  UNCHANGED <<wiring, reverse_wiring, notch_position, rotation_count,
              histVars, desVars, pipeVars, threadVars>>

\* rotor.rotate()
UnitRotate(i) ==
  /\ LET r == rotate(position[i], notch_position[i])
     IN  /\ position' = [position EXCEPT ![i] = r.position]
         /\ CalledR("rotate", <<i>>, Ok(r.carry))
  /\ UnitFrame

\* rotor.encrypt_forward(char)
UnitForward(i, c) ==
  /\ CalledR("encrypt_forward", <<i, c>>,
             encrypt_forward(wiring[i], position[i], <<c>>))
  /\ UNCHANGED position
  /\ UnitFrame

\* rotor.encrypt_backward(char)
UnitBackward(i, c) ==
  /\ CalledR("encrypt_backward", <<i, c>>,
             encrypt_backward(reverse_wiring[i], position[i], <<c>>))
  /\ UNCHANGED position
  /\ UnitFrame

NextUnit ==
  \/ \E i \in 1..Len(position) : UnitRotate(i)
  \/ \E i \in 1..Len(position), c \in {65, 90, 122, 32} : UnitForward(i, c)
  \/ \E i \in 1..Len(position), c \in {65, 90, 122, 32} : UnitBackward(i, c)

SpecUnit == InitUnit /\ [][NextUnit]_vars

(***************************************************************************)
(* Properties of Rotor, checked under SpecUnit                             *)
(***************************************************************************)
\* C9: a wiring string that is not a permutation of A-Z is rejected with an
\* InvalidWiringError, so every constructed rotor has a bijective wiring
\* and a reverse_wiring that is its exact inverse.
ConstructedWiringIsBijection ==
  /\ (op = "init" /\ ~IsPermutation(upper(arg))) => err = "InvalidWiringError"
  /\ \A i \in 1..Len(wiring) :
       IsPermutation(wiring[i]) /\ IsInverse(wiring[i], reverse_wiring[i])

(***************************************************************************)
(* HybridCryptosystem                                                      *)
(***************************************************************************)
\* self.des.encrypt and self.des.decrypt: HybridCryptosystem.py takes a class
\* DES from Des.py, which defines module-level functions only; the methods
\* are taken to be des_encrypt and des_decrypt
DES_encrypt(text, k) == des_encrypt(text, k)
DES_decrypt(bitstream, k) == des_decrypt(bitstream, k)

\* HybridCryptosystem.reset_rotors: the machine after it
reset_rotors(ipos) == reset(ipos)

\* encrypt that runs the rotors from where the last call left them
Hybrid_encrypt_no_reset(w, rw, notch, m, ipos, k, plaintext) ==
  LET r == encrypt(w, rw, notch, m, plaintext)
  IN  IF r.err # "none" THEN r
      ELSE LET d == DES_encrypt(r.val, k)
           IN  [m |-> r.m, err |-> d.err, val |-> d.val]

\* HybridCryptosystem.encrypt on a pipeline with rotors w, rw, notch in state
\* m, initial positions ipos and key k: [m, err, val]
Hybrid_encrypt(w, rw, notch, m, ipos, k, plaintext) ==
  LET r == encrypt(w, rw, notch, reset_rotors(ipos), plaintext)
  IN  IF r.err # "none" THEN r
      ELSE LET d == DES_encrypt(r.val, k)
           IN  [m |-> r.m, err |-> d.err, val |-> d.val]

\* decrypt that runs the rotors from where the last call left them
Hybrid_decrypt_no_reset(w, rw, notch, m, ipos, k, ciphertext_bits) ==
  LET d == DES_decrypt(ciphertext_bits, k)
  IN  IF d.err # "none" THEN [m |-> m, err |-> d.err, val |-> <<>>]
      ELSE encrypt(w, rw, notch, m, d.val)

\* HybridCryptosystem.decrypt: an exception of DES leaves the rotors alone
Hybrid_decrypt(w, rw, notch, m, ipos, k, ciphertext_bits) ==
  LET d == DES_decrypt(ciphertext_bits, k)
  IN  IF d.err # "none" THEN [m |-> m, err |-> d.err, val |-> <<>>]
      ELSE encrypt(w, rw, notch, reset_rotors(ipos), d.val)

\* int(char, 16) for a character below 256; -1 stands for its ValueError
hex_val(c) ==
  IF c \in 48..57 THEN c - 48
  ELSE IF c \in 65..70 THEN c - 55
  ELSE IF c \in 97..102 THEN c - 87
  ELSE -1

\* the bits of the first n characters of hex_key, four each
hex_bits(hex_key, n) ==
  Tup([j \in 1..(4 * n) |->
         (hex_val(hex_key[((j - 1) \div 4) + 1]) \div (2 ^ (3 - ((j - 1) % 4)))) % 2])

\* the first character of hex_key that int(char, 16) rejects, 0 if none
bad_char(hex_key) ==
  LET bad == {i \in 1..Len(hex_key) : hex_val(hex_key[i]) < 0}
  IN  IF bad = {} THEN 0 ELSE CHOOSE i \in bad : \A j \in bad : i <= j

\* a setter that builds the key in self.des_key itself
set_des_key_in_place(k, hex_key) ==
  IF Len(hex_key) # 16 THEN [err |-> "ValueError", des_key |-> k]
  ELSE IF bad_char(hex_key) # 0
  THEN [err |-> "ValueError", des_key |-> hex_bits(hex_key, bad_char(hex_key) - 1)]
  ELSE [err |-> "none", des_key |-> hex_bits(hex_key, 16)]

\* HybridCryptosystem.set_des_key_from_hex on a pipeline with key k:
\* [err, des_key]
set_des_key_from_hex(k, hex_key) ==
  IF Len(hex_key) # 16 THEN [err |-> "ValueError", des_key |-> k]
  ELSE IF bad_char(hex_key) # 0 THEN [err |-> "ValueError", des_key |-> k]
  ELSE [err |-> "none", des_key |-> hex_bits(hex_key, 16)]

(***************************************************************************)
(* Spec: one HybridCryptosystem and the calls made on it                   *)
(***************************************************************************)
\* the des_key a pipeline is built with: 64 bits (given, or drawn at random
\* when None), and lists of 65 and of 56 bits, which __init__ stores as well
KeyArgs == Keys \cup {DemoKey \o <<1>>, SubSeq(DemoKey, 1, 56)}
\* the notches and initial positions a pipeline is built with: those of
\* main(), and positions from which the first letter carries twice
ConfigChoices == {[notch |-> <<16, 4, 21>>, pos |-> <<0, 0, 0>>],
                  [notch |-> <<16, 4, 21>>, pos |-> <<25, 3, 20>>]}

\* "i", "H", e-acute and "!"
PlainChars == <<105, 72, 233, 33>>
\* the texts drawn: the first n characters of PlainChars repeated
Text(n) == Tup([i \in 1..n |-> PlainChars[((i - 1) % Len(PlainChars)) + 1]])
Texts == {Text(n) : n \in 0..MaxLen}

\* "0123456789abcDEF", its first 15 characters, 17 characters, and one with
\* "G" for its ninth character
Hex16 == <<48, 49, 50, 51, 52, 53, 54, 55, 56, 57, 97, 98, 99, 68, 69, 70>>
HexArgs == {Hex16, SubSeq(Hex16, 1, 15), Hex16 \o <<48>>,
            [Hex16 EXCEPT ![9] = 71]}

\* bit lists decrypt is called with that no encrypt returned: one byte, and
\* one block of zeros
RawBits == {Repeat(<<0>>, 8), Repeat(<<0>>, 64)}

Init ==
  /\ \E c \in ConfigChoices :
       /\ Machine_init(<<W1, W2, W3>>, c.notch, c.pos)
       /\ initial_rotor_positions = c.pos
  /\ des_key \in KeyArgs
  /\ sent = <<>> /\ away = FALSE
  /\ start = <<>> /\ alpha_count = 0 /\ direct_steps = 0 /\ enc_log = <<>>
  /\ op = "init" /\ arg = <<>> /\ ret = <<>> /\ err = "none" /\ prev = NoCall
  /\ input = <<>> /\ key = <<>>
  /\ ThreadsIdle

PipeFixed ==
  UNCHANGED <<wiring, reverse_wiring, notch_position, initial_rotor_positions,
              desVars, histVars, threadVars>>

\* crypto.encrypt(plaintext)
HybridEncrypt(plaintext) ==
  /\ \E r \in {Hybrid_encrypt(wiring, reverse_wiring, notch_position, M,
                              initial_rotor_positions, des_key, plaintext)} :
         /\ SetM(r.m)
         /\ CalledR("encrypt", plaintext, r)
         /\ sent' = IF r.err = "none"
                    THEN [text |-> plaintext, bits |-> r.val, key |-> des_key]
                    ELSE sent
  /\ away' = (position # initial_rotor_positions)
  /\ UNCHANGED des_key
  /\ PipeFixed

\* crypto.decrypt(ciphertext_bits)
HybridDecrypt(ciphertext_bits) ==
  /\ \E r \in {Hybrid_decrypt(wiring, reverse_wiring, notch_position, M,
                              initial_rotor_positions, des_key, ciphertext_bits)} :
         /\ SetM(r.m)
         /\ CalledR("decrypt", ciphertext_bits, r)
  /\ away' = (position # initial_rotor_positions)
  /\ UNCHANGED <<des_key, sent>>
  /\ PipeFixed

\* crypto.set_des_key_from_hex(hex_key)
SetDesKeyFromHex(hex_key) ==
  /\ LET r == set_des_key_from_hex(des_key, hex_key)
     IN  /\ des_key' = r.des_key
         /\ CalledR("set_des_key_from_hex", hex_key, [err |-> r.err, val |-> <<>>])
  /\ away' = FALSE
  /\ UNCHANGED <<position, rotation_count, sent>>
  /\ PipeFixed

\* crypto.reset_rotors()
ResetRotors ==
  /\ SetM(reset_rotors(initial_rotor_positions))
  /\ CalledR("reset_rotors", <<>>, Ok(<<>>))
  /\ away' = FALSE
  /\ UNCHANGED <<des_key, sent>>
  /\ PipeFixed

\* crypto.rotor_machine.encrypt(message), as main() calls it
MachineEncrypt(message) ==
  /\ rotation_count + NAlpha(message) <= MaxLen
  /\ LET r == encrypt(wiring, reverse_wiring, notch_position, M, message)
     IN  /\ SetM(r.m)
         /\ CalledR("rotor_machine.encrypt", message, r)
  /\ away' = FALSE
  /\ UNCHANGED <<des_key, sent>>
  /\ PipeFixed

Next ==
  \/ \E plaintext \in Texts : HybridEncrypt(plaintext)
  \/ \E bits \in RawBits \cup (IF sent = <<>> THEN {} ELSE {sent.bits}) :
       HybridDecrypt(bits)
  \/ \E hex_key \in HexArgs : SetDesKeyFromHex(hex_key)
  \/ ResetRotors
  \/ \E n \in 1..MaxStride : MachineEncrypt(Text(n))

Spec == Init /\ [][Next]_vars

(***************************************************************************)
(* Properties of the HybridCryptosystem, checked under Spec                *)
(***************************************************************************)
IsPrintable(str) == \A i \in 1..Len(str) : str[i] \in 32..126

\* decrypt was called on the bits the last encrypt returned, the key is the
\* 64-bit key of that encrypt, and the text is printable ASCII
DecryptedSent ==
  /\ op = "decrypt" /\ sent # <<>> /\ arg = sent.bits
  /\ des_key = sent.key /\ Len(des_key) = 64
  /\ InRange(initial_rotor_positions)
  /\ IsPrintable(sent.text)

\* C1 as claimed: for every printable-ASCII text T and valid 64-bit key,
\* decrypt(encrypt(T)) == T exactly, same characters and same case.
PipelineRoundTripExact == DecryptedSent => (err = "none" /\ ret = sent.text)

\* C1 amended: for every printable-ASCII text T and valid 64-bit key,
\* decrypt(encrypt(T)) returns T with its letters in upper case.
PipelineRoundTripUpper == DecryptedSent => (err = "none" /\ ret = upper(sent.text))

\* a text of two letters, one of them lower-case, came back in upper case
\* through rotors that stepped twice
PipelineRoundTripDone ==
  /\ DecryptedSent
  /\ NAlpha(sent.text) >= 2 /\ sent.text # upper(sent.text)
  /\ Len(sent.bits) = 64
  /\ err = "none" /\ ret = upper(sent.text)
  /\ rotation_count = 2

\* C8: a key that is not exactly 64 bits (a hex string that is not exactly 16
\* characters) is rejected at construction or by the setter: no encrypt or
\* decrypt runs to its end with a key of another length, and the setter
\* raises on every string that is not 16 characters long.
KeyLengthEnforced ==
  /\ (op \in {"encrypt", "decrypt"} /\ err = "none") => Len(des_key) = 64
  /\ (op = "set_des_key_from_hex" /\ Len(arg) # 16) => err # "none"

\* C10: a set_des_key_from_hex call that raises (wrong length, or a non-hex
\* character) leaves the stored key and the rotor state as they were.
FailedSetKeyChangesNothing ==
  [][(op' = "set_des_key_from_hex" /\ err' # "none")
       => UNCHANGED <<des_key, initial_rotor_positions, rotorVars>>]_vars

\* a 16-character string with a non-hex character in it was rejected on a
\* pipeline that holds a 64-bit key and whose rotors have stepped
FailedSetKeyDone ==
  /\ op = "set_des_key_from_hex" /\ err = "ValueError"
  /\ Len(arg) = 16 /\ bad_char(arg) > 1
  /\ Len(des_key) = 64 /\ rotation_count > 0

\* the pipeline as HybridCryptosystem.__init__ leaves it
Fresh == [position |-> initial_rotor_positions, rotation_count |-> 0]

\* C16: whatever calls came before, encrypt and decrypt return (or raise)
\* what a freshly constructed pipeline with the same key would
HistoryIndependent ==
  /\ op = "encrypt" =>
       LET r == Hybrid_encrypt(wiring, reverse_wiring, notch_position, Fresh,
                               initial_rotor_positions, des_key, arg)
       IN  ret = r.val /\ err = r.err
  /\ op = "decrypt" =>
       LET r == Hybrid_decrypt(wiring, reverse_wiring, notch_position, Fresh,
                               initial_rotor_positions, des_key, arg)
       IN  ret = r.val /\ err = r.err

HistoryIndependentDone ==
  /\ op = "encrypt"
  /\ away
  /\ err = "none"
  /\ NAlpha(arg) >= 2

(***************************************************************************)
(* SpecKey: the key of one HybridCryptosystem read and set as hex          *)
(***************************************************************************)
\* format(val, 'x') for val in 0..15
hex_digit(val) == IF val < 10 THEN 48 + val ELSE 87 + val

\* the hex string without its leading zeros, as format(int(bits, 2), 'X')
\* gives it
get_des_key_hex_no_leading_zeros(k) ==
  LET full  == upper(Tup([i \in 1..((Len(k) + 3) \div 4) |->
                 hex_digit(BitsValue(SubSeq(k, 4 * i - 3,
                                            IF 4 * i <= Len(k) THEN 4 * i ELSE Len(k))))]))
      nz    == {i \in 1..Len(full) : full[i] # 48}
      first == IF nz = {} THEN Len(full)
               ELSE CHOOSE i \in nz : \A j \in nz : i <= j
  IN  SubSeq(full, first, Len(full))

\* HybridCryptosystem.get_des_key_hex: one digit per started group of four
\* bits, the last group may be short; the digits in upper case
get_des_key_hex(k) ==
  upper(Tup([i \in 1..((Len(k) + 3) \div 4) |->
          hex_digit(BitsValue(SubSeq(k, 4 * i - 3,
                                     IF 4 * i <= Len(k) THEN 4 * i ELSE Len(k))))]))

\* 64-bit keys: the j-th group of four bits spells (a + b * (j - 1)) mod 16
HexKey(a, b) ==
  Tup([i \in 1..64 |->
         (((a + b * ((i - 1) \div 4)) % 16) \div (2 ^ (3 - ((i - 1) % 4)))) % 2])
\* the keys a pipeline is built with: 64 bits, and 65, 62 and 56 bits
KeyChoices ==
  {HexKey(a, b) : a \in 0..15, b \in 0..MaxStride}
    \cup {DemoKey \o <<1>>, SubSeq(DemoKey, 1, 62), SubSeq(DemoKey, 1, 56)}

\* a pipeline built as main() builds it, with a key of KeyChoices
InitKey ==
  /\ Machine_init(<<W1, W2, W3>>, <<16, 4, 21>>, <<0, 0, 0>>)
  /\ initial_rotor_positions = <<0, 0, 0>>
  /\ des_key \in KeyChoices
  /\ sent = <<>> /\ away = FALSE
  /\ start = <<>> /\ alpha_count = 0 /\ direct_steps = 0 /\ enc_log = <<>>
  /\ op = "init" /\ arg = <<>> /\ ret = <<>> /\ err = "none" /\ prev = NoCall
  /\ input = <<>> /\ key = <<>>
  /\ ThreadsIdle

\* crypto.get_des_key_hex()
GetDesKeyHex ==
  /\ CalledR("get_des_key_hex", <<>>, Ok(get_des_key_hex(des_key)))
  /\ away' = FALSE
  /\ UNCHANGED <<des_key, position, rotation_count, sent>>
  /\ PipeFixed

\* the key is read, and set from the string just read or from another
NextKey ==
  \/ GetDesKeyHex
  \/ \E hex_key \in HexArgs \cup (IF op = "get_des_key_hex" THEN {ret} ELSE {}) :
       SetDesKeyFromHex(hex_key)

SpecKey == InitKey /\ [][NextKey]_vars

\* C11: for every valid 64-bit key K, setting the key from the upper-case
\* 16-character hex string get_des_key_hex returned for K succeeds and
\* stores K again.
KeyHexRoundTrip ==
  [][(op = "get_des_key_hex" /\ Len(des_key) = 64
        /\ op' = "set_des_key_from_hex" /\ arg' = ret)
       => (Len(ret) = 16 /\ ret = upper(ret) /\ err' = "none" /\ des_key' = des_key)]_vars

\* a 64-bit key whose hex string starts with "0" and has a letter in it was
\* read and set again
KeyHexRoundTripDone ==
  /\ op = "set_des_key_from_hex" /\ err = "none"
  /\ arg \notin HexArgs /\ arg = get_des_key_hex(des_key)
  /\ Len(des_key) = 64 /\ arg[1] = 48
  /\ \E i \in 1..Len(arg) : arg[i] \in 65..70

(***************************************************************************)
(* SpecThreads: two threads call reset and encrypt on one RotorMachine     *)
(***************************************************************************)
\* RotorMachine keeps no lock: the loop of encrypt reads and writes the rotor
\* positions of the shared instance, and a thread switch can fall between any
\* two characters.  A switch inside encrypt_char only adds behaviours.
Callers == 1..2
Other(t) == 3 - t
CallMessages == {Msg(n, a) : n \in 1..MaxCall, a \in 0..(Len(Chars) - 1)}

InitThreads ==
  /\ \E pos \in PosChoices :
       /\ Machine_init(<<W1, W2, W3>>, <<16, 4, 21>>, pos)
       /\ start = pos
  /\ \E m1 \in CallMessages, m2 \in CallMessages :
       threads = <<[message |-> m1, consumed |-> 0, encrypted |-> <<>>, pc |-> "ready"],
                   [message |-> m2, consumed |-> 0, encrypted |-> <<>>, pc |-> "ready"]>>
  /\ interleaved = FALSE
  /\ alpha_count = 0 /\ direct_steps = 0 /\ enc_log = <<>>
  /\ op = "init" /\ arg = <<>> /\ ret = <<>> /\ err = "none" /\ prev = NoCall
  /\ input = <<>> /\ key = <<>>
  /\ PipeIdle

ThreadsFixed ==
  UNCHANGED <<wiring, reverse_wiring, notch_position, callVars, histVars,
              desVars, pipeVars>>

\* thread t: machine.reset(*start), then encrypt(message) up to its loop
ThreadCall(t) ==
  /\ threads[t].pc = "ready"
  /\ SetM(reset(start))
  /\ threads' = [threads EXCEPT ![t].pc = "running"]
  /\ interleaved' = (interleaved \/ threads[Other(t)].pc = "running")
  /\ ThreadsFixed

\* thread t: one turn of the loop of RotorMachine.encrypt
ThreadChar(t) ==
  /\ threads[t].pc = "running"
  /\ threads[t].consumed < Len(threads[t].message)
  /\ \E char \in {<<threads[t].message[threads[t].consumed + 1]>>} :
       \E r \in {IF isalpha(char)
                 THEN encrypt_char(wiring, reverse_wiring, notch_position, M, char)
                 ELSE [m |-> M, err |-> "none", val |-> char]} :
         /\ SetM(r.m)
         /\ threads' = [threads EXCEPT ![t].consumed = @ + 1,
                                       ![t].encrypted = @ \o r.val]
  /\ interleaved' = (interleaved \/ threads[Other(t)].pc = "running")
  /\ ThreadsFixed

\* thread t: the loop is over, encrypt returns ''.join(encrypted)
ThreadReturn(t) ==
  /\ threads[t].pc = "running"
  /\ threads[t].consumed = Len(threads[t].message)
  /\ threads' = [threads EXCEPT ![t].pc = "returned"]
  /\ UNCHANGED <<position, rotation_count, interleaved>>
  /\ ThreadsFixed

NextThreads ==
  \/ \E t \in Callers : ThreadCall(t)
  \/ \E t \in Callers : ThreadChar(t)
  \/ \E t \in Callers : ThreadReturn(t)

SpecThreads == InitThreads /\ [][NextThreads]_vars

\* what encrypt(message) returns when it runs alone from the positions start
Solo(message) ==
  encrypt(wiring, reverse_wiring, notch_position,
          [position |-> start, rotation_count |-> 0], message).val

\* C15: calls that are serialised, each preceded by reset to the same
\* positions, return their solo outputs; when the per-character steps of
\* the two calls interleave, a call can return something else
SerialisedCallsGiveSolo ==
  \A t \in Callers :
    (~interleaved /\ threads # <<>> /\ threads[t].pc = "returned")
      => threads[t].encrypted = Solo(threads[t].message)

InterleavedCallDiffers ==
  /\ threads # <<>>
  /\ interleaved
  /\ \E t \in Callers :
       /\ threads[t].pc = "returned"
       /\ threads[t].encrypted # Solo(threads[t].message)

SerialisedCallsDone ==
  /\ threads # <<>>
  /\ ~interleaved
  /\ \A t \in Callers : threads[t].pc = "returned"
  /\ \E t \in Callers : NAlpha(threads[t].message) >= 2

====
